---- MODULE Spec2Model ----
(***************************************************************************)
(* A model of mock-stock (src/main.py): a FastAPI service over one SQLite  *)
(* table Stock(id, sku, value, modified_since).                            *)
(*                                                                         *)
(*   /initialize-stock/  clears the table and streams freshly generated    *)
(*                       rows (generate_random_data),                      *)
(*   /trigger/           rewrites a random sample of rows                  *)
(*                       (change_stock_randomly) and may schedule a        *)
(*                       background webhook replay (send_requests).        *)
(*                                                                         *)
(* Python tuples are modelled as TLA+ tuples, so the code's s[0]..s[3] are *)
(* s[1]..s[4] here.  The random source (Faker, randint, ORDER BY RANDOM()) *)
(* is modelled as inputs chosen with \E.                                   *)
(***************************************************************************)
EXTENDS Integers, Sequences, FiniteSets, TLC

VARIABLES
    exists,    \* the Stock table exists in stock.db
    table,     \* the rows the connection sees: id -> [sku, value, modified_since]
    seq,       \* SQLITE_SEQUENCE.seq of Stock (AUTOINCREMENT counter)
    req,       \* the last request handled (its form fields)
    resp,      \* the response to it: [status, body], body a list of CSV lines
    drawn,     \* the skus fake.ean() returned while the last request ran
    job,       \* the background dispatch job (send_requests)
    inflight,  \* outbound POSTs issued and not yet completed
    posted,    \* every outbound POST issued by the job, in order
    gens,      \* the /initialize-stock/ requests in progress, statement by statement
    trigs,     \* the /trigger/ requests in progress, statement by statement
    origin     \* which request of gens inserted each row of the table

vars == <<exists, table, seq, req, resp, drawn, job, inflight, posted,
          gens, trigs, origin>>

storage == <<exists, table, seq>>
dispatch == <<job, inflight, posted>>
conc == <<gens, trigs, origin>>

----------------------------------------------------------------------------
(* Bounds of the model and the sampled random domains.                     *)

MaxAmount == 2        \* largest amount sent to /initialize-stock/
MaxOffset == 3        \* largest generator batch size (the offset parameter)
MaxChange == 3        \* largest number_to_change sent to /trigger/

\* fake.ean(length=13)
Skus == {"4006381333931", "5901234123457"}
\* randint(0, 200): both ends of the range
RandintLo == 0
RandintHi == 200
Values == {RandintLo, RandintHi}
\* datetimes, as a day of the current month
GenDates == {1}       \* fake.date_time_this_month()
TrigDates == {2}      \* fake.date_time_between("-1m", "now")

NONE == "None"
WebhookUrl == "http://localhost:8000/receiver/"

Min(a, b) == IF a <= b THEN a ELSE b
Max(a, b) == IF a >= b THEN a ELSE b

----------------------------------------------------------------------------
(* Conversions.                                                            *)

\* str(int)
Str(n) == ToString(n)

\* datetime.isoformat()
IsoFormat(d) == "2026-11-0" \o ToString(d) \o "T00:00:00"

\* sqlite3's datetime adapter: the text stored in a DATETIME column
AdaptDatetime(d) == "2026-11-0" \o ToString(d) \o " 00:00:00"

Header == <<"id", "sku", "value", "modified_since">>

\* ",".join(s) + "\n" of a 4-tuple of strings: the line keeps its four fields
CsvLine(s) == <<s[1], s[2], s[3], s[4]>>

----------------------------------------------------------------------------
(* Storage: the statements the handlers execute.                           *)

EmptyTable == [id \in {} |-> 0]

MaxId(tbl) == IF DOMAIN tbl = {} THEN 0
              ELSE CHOOSE m \in DOMAIN tbl : \A x \in DOMAIN tbl : x <= m

\* INSERT INTO Stock VALUES (null, ?, ?, ?) for each tuple of data, in order;
\* AUTOINCREMENT gives max(seq, largest id) + 1.  st = [table, seq].
RECURSIVE InsertMany(_, _)
InsertMany(st, data) ==
    IF data = <<>> THEN st
    ELSE LET d == Head(data)
             id == Max(st.seq, MaxId(st.table)) + 1
             row == [sku |-> d[1], value |-> d[2],
                     modified_since |-> AdaptDatetime(d[3])]
         IN  InsertMany(
                 [table |-> [x \in DOMAIN st.table \cup {id} |->
                                IF x = id THEN row ELSE st.table[x]],
                  seq |-> id],
                 Tail(data))

\* (mutant) the UPDATE without its WHERE clause: every row is rewritten
RECURSIVE UpdateManyNoWhere(_, _)
UpdateManyNoWhere(tbl, data) ==
    IF data = <<>> THEN tbl
    ELSE LET d == Head(data)
             row == [sku |-> d[1], value |-> d[2],
                     modified_since |-> AdaptDatetime(d[3])]
         IN  UpdateManyNoWhere([x \in DOMAIN tbl |-> row], Tail(data))

\* UPDATE Stock SET sku=?, value=?, modified_since=? WHERE id=? for each tuple
RECURSIVE UpdateMany(_, _)
UpdateMany(tbl, data) ==
    IF data = <<>> THEN tbl
    ELSE LET d == Head(data)
             row == [sku |-> d[1], value |-> d[2],
                     modified_since |-> AdaptDatetime(d[3])]
         IN  UpdateMany([x \in DOMAIN tbl |-> IF x = d[4] THEN row ELSE tbl[x]],
                        Tail(data))

\* LIMIT ? over n rows: a negative limit is no limit
Limit(n, amount) == IF amount < 0 THEN n ELSE Min(amount, n)

\* (mutant) a sample drawn with replacement: the same row may come twice
SelectWithReplacement(tbl, amount) ==
    IF DOMAIN tbl = {} THEN {<<>>}
    ELSE [1..(IF amount < 0 THEN Cardinality(DOMAIN tbl) ELSE amount) -> DOMAIN tbl]

\* SELECT id, sku FROM Stock ORDER BY RANDOM() LIMIT ?: the possible results,
\* each a list of ids in the order the cursor returns them
SelectRandom(tbl, amount) ==
    LET k == Limit(Cardinality(DOMAIN tbl), amount)
    IN  {s \in [1..k -> DOMAIN tbl] : \A i, j \in 1..k : i # j => s[i] # s[j]}

----------------------------------------------------------------------------
(* generate_random_data                                                    *)

\* math.ceil(amount / offset)
Ceil(amount, offset) ==
    IF amount % offset = 0 THEN amount \div offset ELSE (amount \div offset) + 1

\* (mutant) the generator without batches: one pass over all amount records
BatchSizesWhole(amount, offset) == [i \in 1..Min(amount, 1) |-> amount]

\* _offset of each pass i of the loop (i counted from 1 here)
BatchSizes(amount, offset) ==
    LET ii == Ceil(amount, offset)
        left == amount % offset
    IN  [i \in 1..ii |-> IF i = ii THEN left ELSE offset]

RECURSIVE SumSeq(_)
SumSeq(s) == IF s = <<>> THEN 0 ELSE Head(s) + SumSeq(Tail(s))

\* how many records the generator produces in all
Produced(amount, offset) == SumSeq(BatchSizes(amount, offset))

\* One draw of the inner loop: sku, the randint appended to data, the randint
\* yielded to the consumer, and the date.  The first randint is sampled at the
\* low end only; the second at both ends, so it may or may not repeat the first.
GenDraws == [sku : Skus, stored : {RandintLo}, yielded : Values, date : GenDates]

\* data.append((sku, randint(0, 200), date))
Appended(g) == <<g.sku, g.stored, g.date>>

\* yield (sku, randint(0, 200), date)
Yielded(g) == <<g.sku, g.yielded, g.date>>

\* The batches inserted one after the other; gen holds the draws of the whole
\* run, from is the index of the first draw of batch i.
RECURSIVE InsertBatches(_, _, _, _, _)
InsertBatches(st, sizes, gen, i, from) ==
    IF i > Len(sizes) THEN st
    ELSE LET data == [j \in 1..sizes[i] |-> Appended(gen[from + j - 1])]
         IN  InsertBatches(InsertMany(st, data), sizes, gen, i + 1, from + sizes[i])

\* stream_data of initialize_stock: the header, then one line per yielded
\* record, numbered by the local counter _id
InitializeBody(gen) ==
    <<CsvLine(Header)>> \o
    [j \in 1..Len(gen) |->
        LET s == Yielded(gen[j])
        IN  CsvLine(<<Str(j), s[1], Str(s[2]), IsoFormat(s[3])>>)]

----------------------------------------------------------------------------
(* change_stock_randomly                                                   *)

TrigDraws == [value : Values, date : TrigDates]

\* the sku written back for a selected row
MutatedSku(tbl, id) == tbl[id].sku

\* data, one tuple (sku, randint(0, 200), date, stock_id) per selected row
MutatedData(tbl, sel, rnd) ==
    [i \in 1..Len(sel) |-> <<MutatedSku(tbl, sel[i]), rnd[i].value, rnd[i].date, sel[i]>>]

\* stream_data of stock_trigger
TriggerBody(stocks) ==
    <<CsvLine(Header)>> \o
    [i \in 1..Len(stocks) |->
        LET s == stocks[i]
        IN  CsvLine(<<Str(s[4]), s[1], Str(s[2]), IsoFormat(s[3])>>)]

----------------------------------------------------------------------------
(* Reading a response back.                                                *)

\* int(text) of a CSV field written by str()
ParseInt(text) == CHOOSE n \in 0..RandintHi : Str(n) = text

\* the datetime a stored DATETIME text stands for
ParseDatetime(text) == CHOOSE d \in GenDates \cup TrigDates : AdaptDatetime(d) = text

\* the data lines of a response body (all but the header)
DataLines(r) == [i \in 1..(Len(r.body) - 1) |-> r.body[i + 1]]

\* the ids printed on the data lines
ReturnedIds(r) == {ParseInt(r.body[i][1]) : i \in 2..Len(r.body)}

\* a CSV line shows exactly the stored row
LineIsStored(l, tbl) ==
    LET id == ParseInt(l[1])
    IN  /\ id \in DOMAIN tbl
        /\ tbl[id].sku = l[2]
        /\ Str(tbl[id].value) = l[3]
        /\ IsoFormat(ParseDatetime(tbl[id].modified_since)) = l[4]

----------------------------------------------------------------------------
(* read_root                                                               *)

\* modified_since is stored as text of one fixed width, so the text order of
\* two values is the order of the datetimes they stand for
TextLeq(a, b) == ParseDatetime(a) <= ParseDatetime(b)

\* (mutant) the SELECT without its ORDER BY: rows come in id order
OrderByRowid(tbl) ==
    {s \in [1..Cardinality(DOMAIN tbl) -> DOMAIN tbl] :
        \A i, j \in 1..Cardinality(DOMAIN tbl) : i < j => s[i] < s[j]}

\* SELECT id, sku, value, modified_since FROM Stock ORDER BY modified_since:
\* the possible results, each a list of ids; rows of equal modified_since
\* come in any order
OrderByModifiedSince(tbl) ==
    {s \in [1..Cardinality(DOMAIN tbl) -> DOMAIN tbl] :
        \A i, j \in 1..Cardinality(DOMAIN tbl) :
            i < j => /\ s[i] # s[j]
                     /\ TextLeq(tbl[s[i]].modified_since, tbl[s[j]].modified_since)}

\* stream_data of read_root: the header, then ",".join(str(r) for r in row)
ReadRootBody(tbl, order) ==
    <<CsvLine(Header)>> \o
    [i \in 1..Len(order) |->
        LET row == tbl[order[i]]
        IN  CsvLine(<<Str(order[i]), row.sku, Str(row.value), row.modified_since>>)]

----------------------------------------------------------------------------
(* send_requests: the dispatch job.                                        *)

MaxConcurrency == 2   \* largest concurrency sent to /trigger/
MaxDuplicate == 1     \* largest duplicate sent to /trigger/
Sleeps == {0}         \* the sleep values sent to /trigger/

NoJob == [phase |-> "none", webhook_url |-> NONE, stocks_to_update |-> <<>>,
          concurrency |-> 1, sleep |-> 0, duplications_number |-> 0,
          csv |-> <<>>, grouped_by_concurrency |-> <<>>, i |-> 0, g |-> 0,
          suspensions |-> 0]

\* background_tasks.add_task(send_requests, webhook_url, stocks, concurrency,
\* sleep, duplicate); csv is the body of the response that scheduled it and
\* suspensions counts the asyncio.sleep calls the job has made
Scheduled(url, stocks, concurrency, sleep, duplicate, body) ==
    [NoJob EXCEPT !.phase = "scheduled", !.webhook_url = url,
                  !.stocks_to_update = stocks, !.concurrency = concurrency,
                  !.sleep = sleep, !.duplications_number = duplicate,
                  !.csv = body]

\* no job is running and none of its requests is still in flight
JobIdle == job.phase \in {"none", "done", "failed", "crashed"} /\ inflight = {}

\* range(0, n, step) for step >= 1
Range(n, step) == [k \in 1..Ceil(n, step) |-> (k - 1) * step]

\* s[a : b] for 0 <= a <= b
Slice(s, a, b) == SubSeq(s, a + 1, Min(b, Len(s)))

\* (mutant) slices one record short: s[i : i + concurrency - 1]
GroupedShort(stocks, concurrency) ==
    LET starts == Range(Len(stocks), concurrency)
    IN  [k \in 1..Len(starts) |->
            Slice(stocks, starts[k], starts[k] + Max(concurrency - 1, 1))]

\* [stocks_to_update[i : i + concurrency]
\*     for i in range(0, len(stocks_to_update), concurrency)]
GroupedByConcurrency(stocks, concurrency) ==
    LET starts == Range(Len(stocks), concurrency)
    IN  [k \in 1..Len(starts) |-> Slice(stocks, starts[k], starts[k] + concurrency)]

\* (mutant) the payload read from storage when the request is built
PayloadFromStorage(s) ==
    IF exists /\ s[4] \in DOMAIN table
    THEN [id |-> s[4], sku |-> table[s[4]].sku, value |-> table[s[4]].value,
          modified_since |-> IsoFormat(ParseDatetime(table[s[4]].modified_since))]
    ELSE [id |-> s[4], sku |-> s[1], value |-> s[2], modified_since |-> IsoFormat(s[3])]

\* data, the JSON body of one POST
Payload(s) ==
    [id |-> s[4], sku |-> s[1], value |-> s[2], modified_since |-> IsoFormat(s[3])]

\* (mutant) the next group is started without awaiting the gather
GatherReturnsEarly(left) == TRUE

\* await asyncio.gather(*r) returns once every request of the group is done
GatherReturns(left) == left = {}

\* The loops entered at pass i, group g: the group's requests are built and
\* gathered, or the loops are over.  The result is <<job, inflight, posted>>.
EnterGroup(j, i, g, fl, log) ==
    IF g > Len(j.grouped_by_concurrency) \/ i > j.duplications_number
    THEN <<[j EXCEPT !.phase = "done", !.i = i, !.g = g], fl, log>>
    ELSE LET group == j.grouped_by_concurrency[g]
             r == [n \in 1..Len(group) |-> [data |-> Payload(group[n]), i |-> i, g |-> g]]
         IN  <<[j EXCEPT !.phase = "gather", !.i = i, !.g = g],
               fl \cup {Len(log) + n : n \in 1..Len(group)},
               log \o r>>

\* the position of the loops after group g of pass i
AfterGroup(j, i, g) ==
    IF g < Len(j.grouped_by_concurrency) THEN <<i, g + 1>> ELSE <<i + 1, 1>>

\* The background task starts: the client is opened and the groups are built;
\* range() raises ValueError when concurrency is 0.
StartJob ==
    /\ job.phase = "scheduled"
    /\ UNCHANGED <<storage, req, resp, drawn, conc>>
    /\ IF job.concurrency = 0
       THEN /\ job' = [job EXCEPT !.phase = "crashed"]
            /\ UNCHANGED <<inflight, posted>>
       ELSE LET j == [job EXCEPT !.grouped_by_concurrency =
                          GroupedByConcurrency(job.stocks_to_update, job.concurrency)]
                nxt == EnterGroup(j, 0, 1, inflight, posted)
            IN  /\ job' = nxt[1]
                /\ inflight' = nxt[2]
                /\ posted' = nxt[3]

Outcomes == {"2xx", "non2xx", "error"}

\* One outbound POST completes: with a 2xx or non-2xx reply client.post returns,
\* on a transport error it raises and the gather re-raises into send_requests,
\* which ends; the other requests of the group are not cancelled.
CompleteRequest(k, outcome) ==
    /\ k \in inflight
    /\ inflight' = inflight \ {k}
    /\ UNCHANGED <<storage, req, resp, drawn, posted, conc>>
    /\ IF job.phase # "gather" THEN UNCHANGED job
       ELSE IF outcome = "error" THEN job' = [job EXCEPT !.phase = "failed"]
       ELSE IF GatherReturns(inflight')
            THEN job' = [job EXCEPT !.phase = "sleep", !.suspensions = @ + 1]
       ELSE UNCHANGED job

\* await asyncio.sleep(sleep) is over: the loops go on
SleepDone ==
    /\ job.phase = "sleep"
    /\ UNCHANGED <<storage, req, resp, drawn, conc>>
    /\ LET at == AfterGroup(job, job.i, job.g)
           nxt == EnterGroup(job, at[1], at[2], inflight, posted)
       IN  /\ job' = nxt[1]
           /\ inflight' = nxt[2]
           /\ posted' = nxt[3]

----------------------------------------------------------------------------
(* Requests followed statement by statement (used where requests overlap). *)

\* the requests followed, each made once
InitSlots == {"a", "b"}
TrigSlots == {"t", "u"}

\* An /initialize-stock/ request: the locals of generate_random_data (amount,
\* offset, i, data) and of stream_data (id, the lines yielded so far), and,
\* for the record, the size of each batch passed to executemany, the ids its
\* rows received, how many of them a commit has covered, and whether another
\* /initialize-stock/ cleared the table while it ran.
IdleGen ==
    [pc |-> "idle", amount |-> 0, offset |-> 1, i |-> 0, data |-> <<>>,
     id |-> 1, lines |-> <<>>, batches |-> <<>>, stored |-> <<>>,
     committed |-> 0, overlapped |-> FALSE]

\* A /trigger/ request: the data list of change_stock_randomly, and, for the
\* record, whether an /initialize-stock/ cleared the table after its SELECT
\* and whether its UPDATE then hit a row.
IdleTrig ==
    [pc |-> "idle", number_to_change |-> 0, data |-> <<>>, stale |-> FALSE,
     overwrote |-> FALSE]

----------------------------------------------------------------------------
(* The request handlers, each run to completion.                           *)

TypeOK ==
    /\ exists \in BOOLEAN
    /\ seq \in Nat
    /\ \A id \in DOMAIN table : id \in 1..seq /\ table[id].sku \in Skus

Init ==
    /\ exists \in BOOLEAN
    /\ table = EmptyTable
    /\ seq = 0
    /\ req = [name |-> "none"]
    /\ resp = [status |-> 0, body |-> <<>>]
    /\ drawn = {}
    /\ job = NoJob
    /\ inflight = {}
    /\ posted = <<>>
    /\ gens = [s \in InitSlots |-> IdleGen]
    /\ trigs = [t \in TrigSlots |-> IdleTrig]
    /\ origin = EmptyTable

\* a statement on the missing table raises sqlite3.OperationalError
ServerError == [status |-> 500, body |-> <<>>]

\* (mutant) send_requests awaited inside the handler instead of added as a
\* background task: its ValueError for concurrency 0 becomes the response
stock_trigger_awaits(number_to_change, webhook_url, concurrency, sleep, duplicate, sel, rnd) ==
    /\ UNCHANGED conc
    /\ req' = [name |-> "trigger", number_to_change |-> number_to_change,
               webhook_url |-> webhook_url, concurrency |-> concurrency,
               sleep |-> sleep, duplicate |-> duplicate]
    /\ drawn' = {}
    /\ IF ~exists
       THEN /\ resp' = ServerError
            /\ UNCHANGED <<storage, dispatch>>
       ELSE LET stocks == MutatedData(table, sel, rnd)
                body == TriggerBody(stocks)
            IN  /\ table' = UpdateMany(table, stocks)
                /\ UNCHANGED <<exists, seq>>
                /\ resp' = IF webhook_url # NONE /\ concurrency = 0
                           THEN ServerError
                           ELSE [status |-> 200, body |-> body]
                /\ IF webhook_url # NONE
                   THEN /\ job' = Scheduled(webhook_url, stocks, concurrency,
                                            sleep, duplicate, body)
                        /\ inflight' = {}
                        /\ posted' = <<>>
                   ELSE UNCHANGED dispatch

\* POST /trigger/
stock_trigger(number_to_change, webhook_url, concurrency, sleep, duplicate, sel, rnd) ==
    /\ UNCHANGED conc
    /\ req' = [name |-> "trigger", number_to_change |-> number_to_change,
               webhook_url |-> webhook_url, concurrency |-> concurrency,
               sleep |-> sleep, duplicate |-> duplicate]
    /\ drawn' = {}
    /\ IF ~exists
       THEN /\ resp' = ServerError
            /\ UNCHANGED <<storage, dispatch>>
       ELSE LET stocks == MutatedData(table, sel, rnd)
                body == TriggerBody(stocks)
            IN  /\ table' = UpdateMany(table, stocks)
                /\ UNCHANGED <<exists, seq>>
                /\ resp' = [status |-> 200, body |-> body]
                /\ IF webhook_url # NONE
                   THEN /\ job' = Scheduled(webhook_url, stocks, concurrency,
                                            sleep, duplicate, body)
                        /\ inflight' = {}
                        /\ posted' = <<>>
                   ELSE UNCHANGED dispatch

\* POST /initialize-stock/
initialize_stock(amount, offset, gen) ==
    /\ UNCHANGED conc
    /\ req' = [name |-> "initialize", amount |-> amount, offset |-> offset]
    /\ UNCHANGED dispatch
    /\ IF ~exists
       THEN /\ resp' = ServerError
            /\ drawn' = {}
            /\ UNCHANGED storage
       ELSE LET cleared == [table |-> EmptyTable, seq |-> 0]
                st == InsertBatches(cleared, BatchSizes(amount, offset), gen, 1, 1)
            IN  /\ table' = st.table
                /\ seq' = st.seq
                /\ UNCHANGED exists
                /\ drawn' = {gen[j].sku : j \in 1..Len(gen)}
                /\ resp' = [status |-> 200, body |-> InitializeBody(gen)]

\* GET /: the response is started before the SELECT runs, so on a missing
\* table the stream breaks after the header line
read_root(order) ==
    /\ UNCHANGED conc
    /\ req' = [name |-> "read_root"]
    /\ drawn' = {}
    /\ UNCHANGED <<storage, dispatch>>
    /\ resp' = [status |-> 200,
                body |-> IF exists THEN ReadRootBody(table, order)
                         ELSE <<CsvLine(Header)>>]

Trigger ==
    \E k \in -1..MaxChange :
        \E sel \in (IF exists THEN SelectRandom(table, k) ELSE {<<>>}) :
            \E rnd \in [1..Len(sel) -> TrigDraws] :
                stock_trigger(k, NONE, 1, 0, 0, sel, rnd)

Initialize ==
    \E amount \in 0..MaxAmount, offset \in 1..MaxOffset :
        \E gen \in [1..(IF exists THEN Produced(amount, offset) ELSE 0) -> GenDraws] :
            initialize_stock(amount, offset, gen)

ReadRoot ==
    \E order \in (IF exists THEN OrderByModifiedSince(table) ELSE {<<>>}) :
        read_root(order)

Next == Trigger \/ Initialize \/ ReadRoot

Spec == Init /\ [][Next]_vars

----------------------------------------------------------------------------
(* The service with its background job.  The handlers run as above, with   *)
(* fewer random outcomes; a /trigger/ with a webhook_url schedules the job,*)
(* whose steps interleave with later requests.  One job is followed at a   *)
(* time.                                                                   *)

JobGenDraws == [sku : Skus, stored : {RandintLo}, yielded : {RandintLo}, date : GenDates]
JobTrigDraws == [value : {RandintHi}, date : TrigDates]

TriggerPlain ==
    \E k \in 0..MaxChange :
        \E sel \in (IF exists THEN SelectRandom(table, k) ELSE {<<>>}) :
            \E rnd \in [1..Len(sel) -> JobTrigDraws] :
                stock_trigger(k, NONE, 1, 0, 0, sel, rnd)

TriggerWebhook ==
    /\ JobIdle
    /\ \E k \in 0..MaxChange, concurrency \in 0..MaxConcurrency,
          duplicate \in 0..MaxDuplicate, sleep \in Sleeps :
        \E sel \in (IF exists THEN SelectRandom(table, k) ELSE {<<>>}) :
            \E rnd \in [1..Len(sel) -> JobTrigDraws] :
                stock_trigger(k, WebhookUrl, concurrency, sleep, duplicate, sel, rnd)

InitializeAgain ==
    \E amount \in 0..MaxAmount, offset \in 1..MaxOffset :
        \E gen \in [1..(IF exists THEN Produced(amount, offset) ELSE 0) -> JobGenDraws] :
            initialize_stock(amount, offset, gen)

Complete == \E k \in inflight, outcome \in Outcomes : CompleteRequest(k, outcome)

DispatchNext ==
    \/ TriggerPlain
    \/ TriggerWebhook
    \/ InitializeAgain
    \/ StartJob
    \/ Complete
    \/ SleepDone

DispatchSpec == Init /\ [][DispatchNext]_vars

----------------------------------------------------------------------------
(* Claims about the request handlers (specification Spec).                 *)

\* C1: a completed /initialize-stock/ with amount = N leaves exactly N rows,
\* with ids exactly 1..N, for every batch size.
C1_InitializeLeavesOneToN ==
    (req.name = "initialize" /\ resp.status = 200)
        => DOMAIN table = 1..req.amount

\* C2: on a table of n rows, /trigger/ with number_to_change = K >= 0 answers
\* 200 with exactly min(K, n) data lines, whose ids are pairwise distinct and
\* were all in the table before the call.
C2_TriggerReturnsMinRows ==
    [][(req'.name = "trigger" /\ exists /\ req'.number_to_change >= 0) =>
        LET lines == DataLines(resp')
        IN  /\ resp'.status = 200
            /\ Len(lines) = Min(req'.number_to_change, Cardinality(DOMAIN table))
            /\ \A i, j \in 1..Len(lines) : i # j => lines[i][1] # lines[j][1]
            /\ \A i \in 1..Len(lines) : ParseInt(lines[i][1]) \in DOMAIN table
      ]_vars

\* C2 witness: a /trigger/ asked for K rows, 1 <= K < n, and returned K.
C2_Witness ==
    /\ req.name = "trigger"
    /\ req.number_to_change >= 1
    /\ req.number_to_change < Cardinality(DOMAIN table)
    /\ Len(DataLines(resp)) = req.number_to_change

\* C7: every sku the Mutator returns (and writes) was newly drawn from the
\* sku source during the call.
C7_SkuNewlyDrawn ==
    req.name = "trigger" => \A i \in 2..Len(resp.body) : resp.body[i][2] \in drawn

\* C8: every data line streamed by /initialize-stock/ is a row of the table
\* afterwards, with the same id, sku, value and modified_since.
C8_StreamedRowsAreStored ==
    (req.name = "initialize" /\ resp.status = 200)
        => \A i \in 2..Len(resp.body) : LineIsStored(resp.body[i], table)

\* C9: a /trigger/ leaves the set of stored ids as it was and leaves every
\* row it does not return unchanged.
C9_TriggerFrame ==
    [][req'.name = "trigger" =>
        /\ DOMAIN table' = DOMAIN table
        /\ \A id \in DOMAIN table :
               id \notin ReturnedIds(resp') => table'[id] = table[id]
      ]_vars

\* C9 witness: a /trigger/ returned some rows of the table and not all.
C9_Witness ==
    /\ req.name = "trigger"
    /\ resp.status = 200
    /\ ReturnedIds(resp) # {}
    /\ DOMAIN table \ ReturnedIds(resp) # {}

----------------------------------------------------------------------------
(* send_requests on its own: every job /trigger/ can schedule from a table *)
(* of MaxLen rows, run step by step while no other request arrives.        *)

MaxLen == 4           \* largest number of rows in the table sampled from

SampleTable ==
    [id \in 1..MaxLen |->
        [sku |-> CHOOSE x \in Skus : TRUE, value |-> RandintLo,
         modified_since |-> AdaptDatetime(CHOOSE d \in GenDates : TRUE)]]

\* the state a /trigger/ with a webhook_url leaves behind on SampleTable
SendInit ==
    \E k \in 0..MaxLen, concurrency \in 0..MaxConcurrency,
       duplicate \in 0..MaxDuplicate, sleep \in Sleeps :
        \E sel \in SelectRandom(SampleTable, k) :
            \E rnd \in [1..Len(sel) -> JobTrigDraws] :
                LET stocks == MutatedData(SampleTable, sel, rnd)
                    body == TriggerBody(stocks)
                IN  /\ exists = TRUE
                    /\ table = UpdateMany(SampleTable, stocks)
                    /\ seq = MaxLen
                    /\ req = [name |-> "trigger", number_to_change |-> k,
                              webhook_url |-> WebhookUrl, concurrency |-> concurrency,
                              sleep |-> sleep, duplicate |-> duplicate]
                    /\ resp = [status |-> 200, body |-> body]
                    /\ drawn = {}
                    /\ job = Scheduled(WebhookUrl, stocks, concurrency, sleep,
                                       duplicate, body)
                    /\ inflight = {}
                    /\ posted = <<>>
                    /\ gens = [s \in InitSlots |-> IdleGen]
                    /\ trigs = [t \in TrigSlots |-> IdleTrig]
                    /\ origin = EmptyTable

SendNext == StartJob \/ Complete \/ SleepDone

SendSpec == SendInit /\ [][SendNext]_vars

----------------------------------------------------------------------------
(* Claims about the dispatch job.                                          *)

JobStarted == job.phase \in {"gather", "sleep", "done", "failed"}
JobStopped == job.phase \in {"done", "failed"}

\* how many POSTs carried the record with this id
TimesPosted(id) == Cardinality({k \in 1..Len(posted) : posted[k].data.id = id})

\* a POST of a later group or a later pass than another
Later(a, b) == a.i > b.i \/ (a.i = b.i /\ a.g > b.g)

\* C3: with concurrency C >= 1 the job posts the list once per pass, in list
\* order, group g of a pass being records (g-1)*C+1 .. min(g*C, L); when it
\* ends without a transport error it has issued L*(R+1) POSTs, R+1 for each
\* record, in ceil(L/C) groups per pass.
C3_PostsEveryRecordPerPass ==
    (JobStarted /\ job.concurrency >= 1) =>
        LET L == Len(job.stocks_to_update)
            C == job.concurrency
            R == job.duplications_number
        IN  /\ Len(posted) <= L * (R + 1)
            /\ \A k \in 1..Len(posted) :
                   LET n == ((k - 1) % L) + 1
                   IN  /\ posted[k].i = (k - 1) \div L
                       /\ posted[k].g = ((n - 1) \div C) + 1
                       /\ posted[k].data.id = job.stocks_to_update[n][4]
            /\ job.phase = "done" =>
                   /\ Len(posted) = L * (R + 1)
                   /\ \A n \in 1..L : TimesPosted(job.stocks_to_update[n][4]) = R + 1
                   /\ \A i \in 0..R :
                          {posted[k].g : k \in {m \in 1..Len(posted) : posted[m].i = i}}
                              = 1..Ceil(L, C)

\* C3 witness: a job of three records, two at a time, repeated, has ended
\* without a transport error.
C3_Witness ==
    /\ job.phase = "done"
    /\ job.concurrency = 2
    /\ Len(job.stocks_to_update) = 3
    /\ job.duplications_number >= 1
    /\ Len(posted) = 3 * (job.duplications_number + 1)

\* C4: with concurrency C >= 1 at most C requests are in flight, no request
\* of a later group or pass has been issued while one of an earlier group or
\* pass is in flight, and the requests are issued in group and pass order.
C4_OneGroupInFlight ==
    job.concurrency >= 1 =>
        /\ Cardinality(inflight) <= job.concurrency
        /\ \A k \in inflight : \A m \in 1..Len(posted) : ~Later(posted[m], posted[k])
        /\ \A m1, m2 \in 1..Len(posted) : m1 < m2 => ~Later(posted[m1], posted[m2])

\* C4 witness: a full group is in flight in a repeat pass.
C4_Witness ==
    /\ job.phase = "gather"
    /\ job.concurrency >= 2
    /\ Cardinality(inflight) = job.concurrency
    /\ job.i >= 1

\* C5: a failed request does not stop the job: whenever the job has ended,
\* every record has been posted exactly once per pass.
C5_FailureDoesNotStopJob ==
    (JobStopped /\ job.concurrency >= 1) =>
        \A n \in 1..Len(job.stocks_to_update) :
            TimesPosted(job.stocks_to_update[n][4]) = job.duplications_number + 1

\* C6: a /trigger/ with a webhook_url and concurrency = 0 is never answered
\* with a 200 CSV response.
C6_ZeroConcurrencyRejected ==
    (req.name = "trigger" /\ req.webhook_url # NONE /\ req.concurrency = 0)
        => resp.status # 200

\* C10: every payload posted is, field by field, the CSV line of the
\* scheduling response at the same position of the list, whatever has
\* happened to storage since.
C10_PayloadsAreTheSnapshot ==
    \A k \in 1..Len(posted) :
        LET L == Len(job.csv) - 1
            l == job.csv[((k - 1) % L) + 2]
            data == posted[k].data
        IN  /\ Str(data.id) = l[1]
            /\ data.sku = l[2]
            /\ Str(data.value) = l[3]
            /\ data.modified_since = l[4]

\* C10 witness: between two groups of a job, after an /initialize-stock/,
\* a record already posted is no longer what storage holds.
C10_Witness ==
    /\ job.phase = "sleep"
    /\ job.g < Len(job.grouped_by_concurrency)
    /\ req.name = "initialize"
    /\ \E k \in 1..Len(posted) :
           LET id == posted[k].data.id
           IN  id \notin DOMAIN table \/ table[id].value # posted[k].data.value

\* C11: the response of /trigger/ is 200 with the CSV of the rows it wrote,
\* whatever job it schedules, and no step of the job changes a response: a
\* response changes only in a handler's own step, before the job it may
\* schedule has started.
C11_ResponseIndependentOfJob ==
    [][/\ (req'.name = "trigger" /\ exists) =>
              /\ resp'.status = 200
              /\ resp'.body[1] = Header
              /\ Len(DataLines(resp')) =
                     Limit(Cardinality(DOMAIN table), req'.number_to_change)
              /\ \A i \in 2..Len(resp'.body) : LineIsStored(resp'.body[i], table')
       /\ resp' # resp => (job'.phase = "scheduled" \/ UNCHANGED dispatch)
      ]_vars

\* C11 witness: the job has ended on an error and the response that
\* scheduled it is still the 200 with its rows.
C11_Witness ==
    /\ job.phase \in {"failed", "crashed"}
    /\ req.name = "trigger"
    /\ req.webhook_url # NONE
    /\ resp.status = 200
    /\ Len(resp.body) >= 2
    /\ resp.body = job.csv

\* C12: a GET / response is the header line followed by exactly one data
\* line per stored row, each stored id once, in ascending modified_since.
C12_ReadRootListsEveryRow ==
    req.name = "read_root" =>
        LET lines == DataLines(resp)
        IN  /\ resp.body[1] = Header
            /\ Len(lines) = Cardinality(DOMAIN table)
            /\ ReturnedIds(resp) = DOMAIN table
            /\ \A i \in 1..Len(lines) :
                   /\ LET id == ParseInt(lines[i][1])
                      IN  id \in DOMAIN table =>
                              /\ lines[i][2] = table[id].sku
                              /\ lines[i][3] = Str(table[id].value)
                              /\ lines[i][4] = table[id].modified_since
                   /\ \A j \in 1..Len(lines) : i < j => TextLeq(lines[i][4], lines[j][4])

\* C12 witness: a GET / listed two rows against their id order, the later id
\* having the earlier modified_since.
C12_Witness ==
    /\ req.name = "read_root"
    /\ Len(resp.body) >= 3
    /\ ParseInt(resp.body[2][1]) > ParseInt(resp.body[3][1])
    /\ resp.body[2][4] # resp.body[3][4]

\* C14: /initialize-stock/ succeeds from every storage state, a database
\* without the Stock table included: the table exists afterwards and the
\* request is answered 200.
C14_InitializeCreatesTable ==
    req.name = "initialize" => (exists /\ resp.status = 200)

\* C17: for every integer number_to_change K, /trigger/ returns (and
\* rewrites) at most max(K, 0) rows.
C17_AtMostMaxKZeroRows ==
    (req.name = "trigger" /\ resp.status = 200)
        => Len(DataLines(resp)) <= Max(req.number_to_change, 0)

\* the groups whose requests have been issued so far, this one included
GroupsIssued == job.i * Len(job.grouped_by_concurrency) + job.g

\* C19: exactly one suspension separates consecutive groups (also across a
\* pass boundary), and the job suspends only when a next group is to follow.
C19_SuspensionOnlyBetweenGroups ==
    (JobStarted /\ job.concurrency >= 1) =>
        LET total == Len(job.grouped_by_concurrency) * (job.duplications_number + 1)
        IN  /\ job.phase = "gather" => job.suspensions = GroupsIssued - 1
            /\ job.phase = "sleep" =>
                   /\ job.suspensions = GroupsIssued
                   /\ GroupsIssued < total
            /\ job.phase = "done" => job.suspensions = Max(total - 1, 0)

----------------------------------------------------------------------------
(* /initialize-stock/ and /trigger/ statement by statement.  Every await   *)
(* (a statement on the connection, a line handed to the response) is a     *)
(* point where another request on the shared connection may run.  The      *)
(* generator is given its offset as in the handlers above.                 *)

MaxGenAmount == 3     \* largest amount of a request followed by statement
MaxGenOffset == 2     \* largest offset of such a request
MaxSelect == 1        \* largest number_to_change of such a request

\* the ids of S in ascending order
Ascending(S) ==
    CHOOSE q \in [1..Cardinality(S) -> S] :
        \A m, n \in 1..Cardinality(S) : m < n => q[m] < q[n]

\* db.commit(): whatever was inserted on the connection is now committed
Committed(gg) ==
    [s \in InitSlots |-> [gg[s] EXCEPT !.committed = Len(gg[s].stored)]]

\* initialize_stock up to its commit: DELETE FROM Stock, CREATE TABLE IF NOT
\* EXISTS, the reset of SQLITE_SEQUENCE, commit; stream_data then starts
InitClear(s, amount, offset) ==
    /\ exists
    /\ gens[s].pc = "idle"
    /\ table' = EmptyTable
    /\ seq' = 0
    /\ origin' = EmptyTable
    /\ gens' = Committed(
           [x \in InitSlots |->
               IF x = s
               THEN [IdleGen EXCEPT !.pc = "gen", !.amount = amount,
                                    !.offset = offset, !.i = 1,
                                    !.overlapped = \E y \in InitSlots \ {s} :
                                                       gens[y].pc = "gen"]
               ELSE IF gens[x].pc = "gen"
                    THEN [gens[x] EXCEPT !.overlapped = TRUE]
                    ELSE gens[x]])
    /\ trigs' = [t \in TrigSlots |->
                    IF trigs[t].pc = "selected"
                    THEN [trigs[t] EXCEPT !.stale = TRUE]
                    ELSE trigs[t]]
    /\ UNCHANGED <<exists, req, resp, drawn, dispatch>>

\* one pass of the inner loop of generate_random_data, and the line stream_data
\* makes of the yielded record
GenYield(s, g) ==
    LET r == gens[s]
        sizes == BatchSizes(r.amount, r.offset)
        y == Yielded(g)
    IN  /\ r.pc = "gen"
        /\ r.i <= Len(sizes)
        /\ Len(r.data) < sizes[r.i]
        /\ gens' = [gens EXCEPT
               ![s].data = Append(@, Appended(g)),
               ![s].lines = Append(@, CsvLine(<<Str(r.id), y[1], Str(y[2]),
                                                IsoFormat(y[3])>>)),
               ![s].id = @ + 1]
        /\ UNCHANGED <<storage, req, resp, drawn, dispatch, trigs, origin>>

\* the end of a pass of the outer loop: executemany(data), data = []
GenInsert(s) ==
    LET r == gens[s]
        sizes == BatchSizes(r.amount, r.offset)
        st == InsertMany([table |-> table, seq |-> seq], r.data)
        new == DOMAIN st.table \ DOMAIN table
    IN  /\ r.pc = "gen"
        /\ r.i <= Len(sizes)
        /\ Len(r.data) = sizes[r.i]
        /\ table' = st.table
        /\ seq' = st.seq
        /\ origin' = [x \in DOMAIN st.table |-> IF x \in new THEN s ELSE origin[x]]
        /\ gens' = [gens EXCEPT
               ![s].stored = @ \o Ascending(new),
               ![s].batches = Append(@, Len(r.data)),
               ![s].data = <<>>,
               ![s].i = @ + 1]
        /\ UNCHANGED <<exists, req, resp, drawn, dispatch, trigs>>

\* after the outer loop: db.commit(); the stream ends
GenCommit(s) ==
    LET r == gens[s]
    IN  /\ r.pc = "gen"
        /\ r.i > Len(BatchSizes(r.amount, r.offset))
        /\ gens' = Committed([gens EXCEPT ![s].pc = "done"])
        /\ UNCHANGED <<storage, req, resp, drawn, dispatch, trigs, origin>>

\* change_stock_randomly: the SELECT and the data list built from its cursor
ChangeSelect(t, number_to_change, sel, rnd) ==
    /\ exists
    /\ trigs[t].pc = "idle"
    /\ trigs' = [trigs EXCEPT ![t] =
           [IdleTrig EXCEPT !.pc = "selected",
                            !.number_to_change = number_to_change,
                            !.data = MutatedData(table, sel, rnd)]]
    /\ UNCHANGED <<storage, req, resp, drawn, dispatch, gens, origin>>

\* change_stock_randomly: executemany of the UPDATE
ChangeUpdate(t) ==
    LET r == trigs[t]
    IN  /\ r.pc = "selected"
        /\ table' = UpdateMany(table, r.data)
        /\ trigs' = [trigs EXCEPT
               ![t].pc = "updated",
               ![t].overwrote = r.stale /\ \E n \in 1..Len(r.data) :
                                               r.data[n][4] \in DOMAIN table]
        /\ UNCHANGED <<exists, seq, req, resp, drawn, dispatch, gens, origin>>

\* change_stock_randomly: db.commit(), return data
ChangeCommit(t) ==
    /\ trigs[t].pc = "updated"
    /\ trigs' = [trigs EXCEPT ![t].pc = "done"]
    /\ gens' = Committed(gens)
    /\ UNCHANGED <<storage, req, resp, drawn, dispatch, origin>>

Clear(S, A) ==
    \E s \in S, amount \in A, offset \in 1..MaxGenOffset :
        InitClear(s, amount, offset)
Yield(S, D) == \E s \in S, g \in D : GenYield(s, g)
Insert(S) == \E s \in S : GenInsert(s)
Commit(S) == \E s \in S : GenCommit(s)

Select ==
    \E t \in TrigSlots, k \in 0..MaxSelect :
        \E sel \in SelectRandom(table, k) :
            \E rnd \in [1..Len(sel) -> TrigDraws] :
                ChangeSelect(t, k, sel, rnd)
Update == \E t \in TrigSlots : ChangeUpdate(t)
Return == \E t \in TrigSlots : ChangeCommit(t)

ConcInit == Init /\ exists

\* where requests overlap one outcome of the random source is followed
ConcGenDraws == {g \in JobGenDraws : g.sku = CHOOSE x \in Skus : TRUE}

\* one /initialize-stock/ alone, streamed to its end: the consumer of the
\* response keeps reading, so the generator keeps running
GenNext == Clear({"a"}, 0..MaxGenAmount) \/ Yield({"a"}, GenDraws) \/ Insert({"a"}) \/ Commit({"a"})

GenSpec == ConcInit /\ [][GenNext]_vars /\ WF_vars(GenNext)

\* overlapping requests
ConcNext ==
    \/ Clear(InitSlots, 1..MaxAmount) \/ Yield(InitSlots, ConcGenDraws) \/ Insert(InitSlots) \/ Commit(InitSlots)
    \/ Select \/ Update \/ Return

ConcSpec == ConcInit /\ [][ConcNext]_vars

----------------------------------------------------------------------------
(* Claims about the generator and about overlapping requests.              *)

\* C13: for amount N >= 1 and offset B >= 1 a finished generator has passed
\* ceil(N/B) batches to executemany, none larger than B, every one but the
\* last of size B, and the last of size N mod B, or B when B divides N.
C13_BatchSizes ==
    \A s \in InitSlots :
        LET r == gens[s]
            last == Len(r.batches)
        IN  (r.pc = "done" /\ r.amount >= 1) =>
                /\ last = Ceil(r.amount, r.offset)
                /\ \A n \in 1..last :
                      /\ r.batches[n] <= r.offset
                      /\ n < last => r.batches[n] = r.offset
                /\ r.batches[last] = IF r.amount % r.offset = 0 THEN r.offset
                                     ELSE r.amount % r.offset

\* while the generator runs: the buffer holds at most offset records, every
\* yielded record that is not in the buffer has been inserted, and sits in
\* the table under the id it received
PersistedBeforeNext ==
    \A s \in InitSlots :
        LET r == gens[s]
        IN  r.pc = "gen" =>
                /\ Len(r.data) <= r.offset
                /\ Len(r.stored) = Len(r.lines) - Len(r.data)
                /\ \A n \in 1..Len(r.stored) :
                      /\ r.stored[n] \in DOMAIN table
                      /\ table[r.stored[n]].sku = r.lines[n][2]

C15_SelectThenUpdateAtomic ==
    [][\A t \in TrigSlots :
          (trigs[t].pc = "updated" /\ trigs'[t].pc = "done") =>
              /\ \A n \in 1..Len(trigs[t].data) :
                    LET d == trigs[t].data[n]
                    IN  /\ d[4] \in DOMAIN table'
                        /\ table'[d[4]] = [sku |-> d[1], value |-> d[2],
                                           modified_since |-> AdaptDatetime(d[3])]
              /\ ~trigs'[t].overwrote
      ]_vars

\* C16: after two overlapping /initialize-stock/ requests have both finished,
\* the table holds the rows of one of them only, under ids 1..N, and every
\* streamed line of a row in the table carries the id the row is stored under.
C16_OverlappingInitializes ==
    (\A s \in InitSlots : gens[s].pc = "done" /\ gens[s].overlapped) =>
        /\ \E s \in InitSlots :
              /\ \A x \in DOMAIN table : origin[x] = s
              /\ DOMAIN table = 1..Len(gens[s].stored)
        /\ \A s \in InitSlots : \A n \in 1..Len(gens[s].stored) :
              (gens[s].stored[n] \in DOMAIN table /\ origin[gens[s].stored[n]] = s)
                  => gens[s].lines[n][1] = Str(gens[s].stored[n])

====
